---- MODULE Spec2Model ----
(***************************************************************************)
(* A model of fetch_competitions.py: the scraper that turns the portal's   *)
(* competition listing into a JSON export, a location ledger (CSV) and one *)
(* calendar file per club.                                                 *)
(*                                                                         *)
(* Text is a sequence of characters; a character is a one-character        *)
(* string, and a letter with a diacritic is named by its code point        *)
(* ("U+0141" is the capital L with stroke).  A Python value that may be    *)
(* None, and a dict key that may be absent, is a sequence of length at     *)
(* most one: <<>> is None / absent, <<v>> is the value v.                  *)
(***************************************************************************)
EXTENDS Integers, Sequences, FiniteSets, TLC

VARIABLES
    pc,                     \* position of main() (or of the function under study)
    run,                    \* number of the current run of the script
    ledgerFile,             \* locations.csv: <<>> when absent, else <<rows>>
    jsonFile,               \* competitions.json: <<>> when absent, else <<records>>
    calendars,              \* calendars/: file name (slug) -> calendar document
    locations_data,         \* main's locations_data (the ledger as loaded)
    html,                   \* main's html: <<>> is None, else <<page>>
    club_websites,          \* parse_competitions' club_websites dict
    locations_competitions, \* the module-level dict, in insertion order
    all_locations,          \* parse_competitions' all_locations set
    pos,                    \* entries of the page the second pass has handled
    atStart,                \* the three outputs as they were when the run began
    prev,                   \* what the previous completed run read and wrote
    portal,                 \* the page the portal serves
    date_str,               \* parse_date_range_for_ics's argument
    dates,                  \* what parse_date_range_for_ics returned
    meant                   \* the date that date_str was written from

vars == <<pc, run, ledgerFile, jsonFile, calendars, locations_data, html,
          club_websites, locations_competitions, all_locations, pos,
          atStart, prev, portal, date_str, dates, meant>>

----------------------------------------------------------------------------
(* Python values *)

None == <<>>
Some(v) == <<v>>
IsNone(o) == Len(o) = 0
Val(o) == Head(o)

Range(s) == {s[i] : i \in 1..Len(s)}

----------------------------------------------------------------------------
(* Characters *)

DigitChars == <<"0", "1", "2", "3", "4", "5", "6", "7", "8", "9">>
Digits == Range(DigitChars)
DigitVal(c) == (CHOOSE i \in 1..10 : DigitChars[i] = c) - 1

\* str.isspace characters that the inputs use
Whitespace == {" ", "\t", "\n"}

\* the letters str.lower changes, and what it changes them to
UpperChars == <<"A", "B", "C", "D", "E", "F", "G", "H", "I", "J", "K", "L", "M",
                "N", "O", "P", "Q", "R", "S", "T", "U", "V", "W", "X", "Y", "Z",
                "U+0104", "U+0106", "U+0118", "U+0141", "U+0143", "U+00D3",
                "U+015A", "U+0179", "U+017B">>
LowerChars == <<"a", "b", "c", "d", "e", "f", "g", "h", "i", "j", "k", "l", "m",
                "n", "o", "p", "q", "r", "s", "t", "u", "v", "w", "x", "y", "z",
                "U+0105", "U+0107", "U+0119", "U+0142", "U+0144", "U+00F3",
                "U+015B", "U+017A", "U+017C">>

LowerChar(c) ==
    IF \E i \in 1..Len(UpperChars) : UpperChars[i] = c
    THEN LowerChars[CHOOSE i \in 1..Len(UpperChars) : UpperChars[i] = c]
    ELSE c

\* str.lower
RECURSIVE Lower(_)
Lower(s) ==
    IF Len(s) = 0 THEN <<>> ELSE <<LowerChar(Head(s))>> \o Lower(Tail(s))

\* int() of a run of decimal digits
RECURSIVE IntOf(_)
IntOf(ds) ==
    IF Len(ds) = 0 THEN 0
    ELSE 10 * IntOf(SubSeq(ds, 1, Len(ds) - 1)) + DigitVal(ds[Len(ds)])

\* format(n, "0<w>d"): decimal digits, zero-padded to width w
RECURSIVE Decimal(_)
Decimal(n) ==
    IF n < 10 THEN <<DigitChars[n + 1]>>
    ELSE Decimal(n \div 10) \o <<DigitChars[(n % 10) + 1]>>

RECURSIVE Pad(_, _)
Pad(ds, w) == IF Len(ds) >= w THEN ds ELSE Pad(<<"0">> \o ds, w)

\* "needle in hay" for str
Contains(hay, needle) ==
    \E i \in 1..(Len(hay) - Len(needle) + 1) :
        SubSeq(hay, i, i + Len(needle) - 1) = needle

\* end of the maximal run of digits that starts at i (i - 1 when s[i] is no digit)
RECURSIVE DigitRunEnd(_, _)
DigitRunEnd(s, i) ==
    IF i <= Len(s) /\ s[i] \in Digits THEN DigitRunEnd(s, i + 1) ELSE i - 1

\* first index at or after i that holds no whitespace (the end of \s*)
RECURSIVE SkipSpace(_, _)
SkipSpace(s, i) ==
    IF i <= Len(s) /\ s[i] \in Whitespace THEN SkipSpace(s, i + 1) ELSE i

----------------------------------------------------------------------------
(* datetime.date, as parse_date_range_for_ics uses it *)

FALLBACK_YEAR == 2026

DAYS_IN_MONTH == <<31, 28, 31, 30, 31, 30, 31, 31, 30, 31, 30, 31>>
DAYS_BEFORE_MONTH == <<0, 31, 59, 90, 120, 151, 181, 212, 243, 273, 304, 334>>

IsLeap(y) == y % 4 = 0 /\ (y % 100 # 0 \/ y % 400 = 0)

DaysInMonth(y, m) == IF m = 2 /\ IsLeap(y) THEN 29 ELSE DAYS_IN_MONTH[m]

DaysBeforeYear(y) ==
    (y - 1) * 365 + ((y - 1) \div 4) - ((y - 1) \div 100) + ((y - 1) \div 400)

DaysBeforeMonth(y, m) ==
    DAYS_BEFORE_MONTH[m] + (IF m > 2 /\ IsLeap(y) THEN 1 ELSE 0)

\* date(y, m, d) raises ValueError unless this holds
DateValid(y, m, d) ==
    /\ 1 <= y /\ y <= 9999
    /\ 1 <= m /\ m <= 12
    /\ 1 <= d /\ d <= DaysInMonth(y, m)

\* date.toordinal
ToOrdinal(y, m, d) == DaysBeforeYear(y) + DaysBeforeMonth(y, m) + d

\* date.max.toordinal(): date + timedelta raises OverflowError beyond it
MaxOrdinal == ToOrdinal(9999, 12, 31)

\* date.fromordinal
FromOrdinal(ord) ==
    LET n0   == ord - 1
        n400 == n0 \div 146097
        r400 == n0 % 146097
        n100 == r400 \div 36524
        r100 == r400 % 36524
        n4   == r100 \div 1461
        r4   == r100 % 1461
        n1   == r4 \div 365
        n    == r4 % 365
        year == n400 * 400 + 1 + n100 * 100 + n4 * 4 + n1
    IN  IF n1 = 4 \/ n100 = 4 THEN <<year - 1, 12, 31>>
        ELSE
          LET leap  == n1 = 3 /\ (n4 # 24 \/ n100 = 3)
              month == (n + 50) \div 32
              prec  == DAYS_BEFORE_MONTH[month]
                         + (IF month > 2 /\ leap THEN 1 ELSE 0)
              m2    == IF prec > n THEN month - 1 ELSE month
              prec2 == IF prec > n
                       THEN prec - (DAYS_IN_MONTH[m2]
                                      + (IF m2 = 2 /\ leap THEN 1 ELSE 0))
                       ELSE prec
          IN  <<year, m2, n - prec2 + 1>>

\* date.strftime("%Y%m%d"), and the f-string of line 274
FormatYMD(y, m, d) ==
    Pad(Decimal(y), 4) \o Pad(Decimal(m), 2) \o Pad(Decimal(d), 2)

\* date(y, m, d) + timedelta(days=1), as (year, month, day)
NextDayNaive(y, m, d) == <<y, m, d + 1>>
NextDay(y, m, d) == FromOrdinal(ToOrdinal(y, m, d) + 1)

----------------------------------------------------------------------------
(* parse_date_range_for_ics *)

\* the months dict, in its insertion order; the value is the index
MONTHS == << <<"s", "t", "y">>, <<"l", "u", "t">>, <<"m", "a", "r">>,
             <<"k", "w", "i">>, <<"m", "a", "j">>, <<"c", "z", "e">>,
             <<"l", "i", "p">>, <<"s", "i", "e">>, <<"w", "r", "z">>,
             <<"p", "a", "U+017A">>, <<"l", "i", "s">>, <<"g", "r", "u">> >>

\* re.search(r'(\d{4})', date_str), with the fallback
YearOf(s) ==
    LET at == {i \in 1..(Len(s) - 3) : \A k \in 0..3 : s[i + k] \in Digits}
    IN  IF at = {} THEN FALLBACK_YEAR
        ELSE LET i == CHOOSE j \in at : \A k \in at : j <= k
             IN  IntOf(SubSeq(s, i, i + 3))

\* the first month of the dict whose abbreviation occurs in date_str.lower()
MonthOf(s) ==
    LET low == Lower(s)
        hit == {m \in 1..Len(MONTHS) : Contains(low, MONTHS[m])}
    IN  IF hit = {} THEN 0 ELSE CHOOSE m \in hit : \A k \in hit : m <= k

\* re.search(r'(\d+)\s*-\s*(\d+)', date_str): None or <<group 1, group 2>>
RangeMatch(s) ==
    LET Hyphen(i) == SkipSpace(s, DigitRunEnd(s, i) + 1)
        Second(i) == SkipSpace(s, Hyphen(i) + 1)
        at == {i \in 1..Len(s) :
                 /\ s[i] \in Digits
                 /\ Hyphen(i) <= Len(s) /\ s[Hyphen(i)] = "-"
                 /\ Second(i) <= Len(s) /\ s[Second(i)] \in Digits}
    IN  IF at = {} THEN None
        ELSE LET i == CHOOSE j \in at : \A k \in at : j <= k
             IN  Some(<<SubSeq(s, i, DigitRunEnd(s, i)),
                        SubSeq(s, Second(i), DigitRunEnd(s, Second(i)))>>)

\* re.search(r'^(\d+)', date_str): None or <<group 1>>
DayMatch(s) ==
    IF Len(s) > 0 /\ s[1] \in Digits
    THEN Some(SubSeq(s, 1, DigitRunEnd(s, 1)))
    ELSE None

\* None, or <<start, end>> as two YYYYMMDD texts
parse_date_range_for_ics(s) ==
    LET year  == YearOf(s)
        month == MonthOf(s)
        rm    == RangeMatch(s)
        dm    == DayMatch(s)
    IN  IF month = 0 THEN None
        ELSE IF ~IsNone(rm) THEN
          LET start_day == IntOf(Head(Val(rm)))
              end_day   == IntOf(Head(Tail(Val(rm))))
          IN  IF /\ DateValid(year, month, start_day)
                 /\ DateValid(year, month, end_day)
                 /\ ToOrdinal(year, month, end_day) + 1 <= MaxOrdinal
              THEN LET e == NextDay(year, month, end_day)
                   IN  Some(<<FormatYMD(year, month, start_day),
                              FormatYMD(e[1], e[2], e[3])>>)
              ELSE None       \* ValueError / OverflowError, caught
        ELSE IF ~IsNone(dm) THEN
          LET day == IntOf(Val(dm))
          IN  IF /\ DateValid(year, month, day)
                 /\ ToOrdinal(year, month, day) + 1 <= MaxOrdinal
              THEN LET e == NextDay(year, month, day)
                   IN  Some(<<FormatYMD(year, month, day),
                              FormatYMD(e[1], e[2], e[3])>>)
              ELSE None
        ELSE None

----------------------------------------------------------------------------
(* sanitize_location, generate_slug and the other text helpers *)

\* the characters of the model in code-point order, for sorted()
CODE_ORDER == <<"\t", "\n", " ", "\"", ",", "-", ".", "/",
                "0", "1", "2", "3", "4", "5", "6", "7", "8", "9", ":", "@",
                "A", "B", "C", "D", "E", "F", "G", "H", "I", "J", "K", "L", "M",
                "N", "O", "P", "Q", "R", "S", "T", "U", "V", "W", "X", "Y", "Z",
                "_",
                "a", "b", "c", "d", "e", "f", "g", "h", "i", "j", "k", "l", "m",
                "n", "o", "p", "q", "r", "s", "t", "u", "v", "w", "x", "y", "z",
                "U+00D3", "U+00F3", "U+0104", "U+0105", "U+0106", "U+0107",
                "U+0118", "U+0119", "U+0141", "U+0142", "U+0143", "U+0144",
                "U+015A", "U+015B", "U+0179", "U+017A", "U+017B", "U+017C">>

Ord(c) == CHOOSE i \in 1..Len(CODE_ORDER) : CODE_ORDER[i] = c

\* a < b for str
RECURSIVE TextLess(_, _)
TextLess(a, b) ==
    IF Len(b) = 0 THEN FALSE
    ELSE IF Len(a) = 0 THEN TRUE
    ELSE IF a[1] # b[1] THEN Ord(a[1]) < Ord(b[1])
    ELSE TextLess(Tail(a), Tail(b))

\* sorted(list(S)) for a set of str
RECURSIVE Sorted(_)
Sorted(S) ==
    IF S = {} THEN <<>>
    ELSE LET least == CHOOSE x \in S : \A y \in S \ {x} : TextLess(x, y)
         IN  <<least>> \o Sorted(S \ {least})

\* s with every character of chars removed
RECURSIVE Without(_, _)
Without(s, chars) ==
    IF Len(s) = 0 THEN <<>>
    ELSE (IF Head(s) \in chars THEN <<>> ELSE <<Head(s)>>)
           \o Without(Tail(s), chars)

\* s.strip(chars)
RECURSIVE StripLeft(_, _)
StripLeft(s, chars) ==
    IF Len(s) > 0 /\ Head(s) \in chars THEN StripLeft(Tail(s), chars) ELSE s

RECURSIVE StripRight(_, _)
StripRight(s, chars) ==
    IF Len(s) > 0 /\ s[Len(s)] \in chars
    THEN StripRight(SubSeq(s, 1, Len(s) - 1), chars)
    ELSE s

StripChars(s, chars) == StripRight(StripLeft(s, chars), chars)

\* s.strip()
Strip(s) == StripChars(s, Whitespace)

\* re.sub(r'[",]', "", text).strip()
sanitize_location(text) ==
    Strip(Without(text, {"\"", ","}))

\* the replacements dict of generate_slug
DIACRITICS == <<"U+0105", "U+0107", "U+0119", "U+0142", "U+0144", "U+00F3",
                "U+015B", "U+017A", "U+017C",
                "U+0104", "U+0106", "U+0118", "U+0141", "U+0143", "U+00D3",
                "U+015A", "U+0179", "U+017B">>
PLAIN      == <<"a", "c", "e", "l", "n", "o", "s", "z", "z",
                "A", "C", "E", "L", "N", "O", "S", "Z", "Z">>

Transliterate(c) ==
    IF \E i \in 1..Len(DIACRITICS) : DIACRITICS[i] = c
    THEN PLAIN[CHOOSE i \in 1..Len(DIACRITICS) : DIACRITICS[i] = c]
    ELSE c

\* [a-z0-9]
SlugChars == Digits \cup {LowerChars[i] : i \in 1..26}

\* re.sub(r'[^a-z0-9]+', '_', text)
RECURSIVE Underscore(_, _)
Underscore(s, inRun) ==
    IF Len(s) = 0 THEN <<>>
    ELSE IF Head(s) \in SlugChars THEN <<Head(s)>> \o Underscore(Tail(s), FALSE)
    ELSE (IF inRun THEN <<>> ELSE <<"_">>) \o Underscore(Tail(s), TRUE)

\* the loop of lines 239-240
RECURSIVE Replaced(_)
Replaced(text) ==
    IF Len(text) = 0 THEN <<>>
    ELSE <<Transliterate(Head(text))>> \o Replaced(Tail(text))

generate_slug(text) ==
    StripChars(Underscore(Lower(Replaced(text)), FALSE), {"_"})

\* "/".join(href.split("/")[:3])
WebsiteOf(href) ==
    LET slashes == {i \in 1..Len(href) : href[i] = "/"}
        third   == {i \in slashes : Cardinality({j \in slashes : j < i}) = 2}
    IN  IF third = {} THEN href
        ELSE SubSeq(href, 1, (CHOOSE i \in third : TRUE) - 1)

\* re.sub(r'\s+', ' ', text)
RECURSIVE CollapseSpace(_, _)
CollapseSpace(s, inRun) ==
    IF Len(s) = 0 THEN <<>>
    ELSE IF Head(s) \notin Whitespace
         THEN <<Head(s)>> \o CollapseSpace(Tail(s), FALSE)
    ELSE (IF inRun THEN <<>> ELSE <<" ">>) \o CollapseSpace(Tail(s), TRUE)

\* sep.join(parts)
RECURSIVE Join(_, _)
Join(sep, parts) ==
    IF Len(parts) = 0 THEN <<>>
    ELSE IF Len(parts) = 1 THEN parts[1]
    ELSE parts[1] \o sep \o Join(sep, Tail(parts))

----------------------------------------------------------------------------
(* float() and repr() of the ledger's coordinates *)

\* A float is [whole |-> n, frac |-> digits after the point, none trailing 0].
\* float(text): None stands for ValueError.  The texts of the model are
\* digits, or digits "." digits.
float(text) ==
    LET dot == {i \in 1..Len(text) : text[i] = "."}
        IsDigits(t) == \A i \in 1..Len(t) : t[i] \in Digits
    IN  IF Len(text) = 0 \/ Cardinality(dot) > 1 THEN None
        ELSE IF dot = {} THEN
            IF IsDigits(text)
            THEN Some([whole |-> IntOf(text), frac |-> <<>>])
            ELSE None
        ELSE LET d == CHOOSE i \in dot : TRUE
                 w == SubSeq(text, 1, d - 1)
                 f == SubSeq(text, d + 1, Len(text))
             IN  IF IsDigits(w) /\ IsDigits(f) /\ Len(w) + Len(f) > 0
                 THEN Some([whole |-> IntOf(w),
                            frac  |-> StripRight(f, {"0"})])
                 ELSE None

\* repr(x) of a float, which csv.writer and json.dump write
repr(x) ==
    Decimal(x.whole) \o <<".">> \o (IF Len(x.frac) = 0 THEN <<"0">> ELSE x.frac)

----------------------------------------------------------------------------
(* dicts *)

EmptyDict == [k \in {} |-> None]

\* d.get(k, default)
Get(d, k, default) == IF k \in DOMAIN d THEN d[k] ELSE default

\* d[k] = v
Put(d, k, v) == [x \in (DOMAIN d) \cup {k} |-> IF x = k THEN v ELSE d[x]]

----------------------------------------------------------------------------
(* load_locations_data *)

\* A row of locations.csv is [location_text, latitude, longitude, website],
\* four texts.  The loop of lines 29-45: a row whose number does not parse
\* raises ValueError, which ends the loop and keeps the rows read before it.
CoordinateOf(text) ==
    IF Len(text) > 0 /\ text # <<"N", "o", "n", "e">>
    THEN float(text)
    ELSE None

RowRaises(row) ==
    \/ Len(row.latitude) > 0 /\ row.latitude # <<"N", "o", "n", "e">>
         /\ IsNone(float(row.latitude))
    \/ Len(row.longitude) > 0 /\ row.longitude # <<"N", "o", "n", "e">>
         /\ IsNone(float(row.longitude))

RECURSIVE LoadRows(_, _)
LoadRows(rows, locations) ==
    IF Len(rows) = 0 \/ RowRaises(Head(rows)) THEN locations
    ELSE LoadRows(Tail(rows),
                  Put(locations, Head(rows).location_text,
                      [latitude  |-> CoordinateOf(Head(rows).latitude),
                       longitude |-> CoordinateOf(Head(rows).longitude),
                       website   |-> Head(rows).website]))

load_locations_data(file) ==
    IF IsNone(file) THEN EmptyDict ELSE LoadRows(Val(file), EmptyDict)

----------------------------------------------------------------------------
(* parse_competitions *)

\* A page is [empty |-> whether the text is "", entries |-> the elements with
\* class sm:grid-cols-12 that follow a month header, in document order].  An
\* entry is [club, location, href, date, name, weapons], each absent or
\* present: the first text node of p.uppercase, the text of p.leading-4, the
\* href of the first link whose text contains "Regulamin", the text of
\* div.whitespace-nowrap, the text of strong.leading-4, the texts of the p's
\* of div.grid-cols-2.

\* first pass, lines 73-100
RECURSIVE FirstPass(_, _)
FirstPass(entries, websites) ==
    IF Len(entries) = 0 THEN websites
    ELSE LET e == Head(entries)
             club_name == Strip(Val(e.club))
             website == WebsiteOf(Val(e.href))
         IN  IF IsNone(e.club) \/ IsNone(e.href) THEN FirstPass(Tail(entries), websites)
             ELSE IF Len(website) > 0 /\ club_name \notin DOMAIN websites
                  THEN FirstPass(Tail(entries), Put(websites, club_name, website))
             ELSE FirstPass(Tail(entries), websites)

\* the LocationKey of a record
KeyOf(rec) == <<rec.club, sanitize_location(rec.location)>>

\* [p.text.strip() for p in ...], line 163
RECURSIVE StripEach(_)
StripEach(texts) ==
    IF Len(texts) = 0 THEN <<>>
    ELSE <<Strip(Head(texts))>> \o StripEach(Tail(texts))

\* the competition dict of lines 143-164
CompetitionOf(e) ==
    [date            |-> IF IsNone(e.date) THEN None ELSE Some(Strip(Val(e.date))),
     name            |-> IF IsNone(e.name) THEN None ELSE Some(Strip(Val(e.name))),
     regulation_link |-> e.href,
     weapons         |-> IF IsNone(e.weapons) THEN None
                         ELSE Some(StripEach(Val(e.weapons)))]

\* "if competition:" of line 166
NonEmpty(comp) ==
    ~(IsNone(comp.date) /\ IsNone(comp.name)
        /\ IsNone(comp.regulation_link) /\ IsNone(comp.weapons))

\* line 135: website or coords.get("website", "")
SeedWebsiteLedgerFirst(website, coords) ==
    IF Len(coords) > 0 /\ Len(Val(coords).website) > 0
    THEN Val(coords).website ELSE website
SeedWebsite(website, coords) ==
    IF Len(website) > 0 THEN website
    ELSE IF IsNone(coords) THEN <<>> ELSE Val(coords).website

\* lines 167-169: the competition goes to the end of the record's list
AppendCompetitionFront(competitions, comp) == <<comp>> \o competitions
AppendCompetition(competitions, comp) == Append(competitions, comp)

\* one iteration of the second pass, lines 112-169: the new
\* <<locations_competitions, all_locations>>
SecondPassEntry(e, records, locations, websites, ledger) ==
    IF IsNone(e.club) \/ IsNone(e.location) THEN <<records, locations>>
    ELSE
      LET club_name     == Strip(Val(e.club))
          location_text == Strip(Val(e.location))
          sanitized     == sanitize_location(location_text)
          website       == Get(websites, club_name, <<>>)
          location_key  == <<club_name, sanitized>>
          coords        == IF sanitized \in DOMAIN ledger
                           THEN Some(ledger[sanitized]) ELSE None
          seen          == \E i \in 1..Len(records) : KeyOf(records[i]) = location_key
          created       ==
              IF seen THEN records
              ELSE Append(records,
                     [club         |-> club_name,
                      location     |-> location_text,
                      latitude     |-> IF IsNone(coords) THEN None
                                       ELSE Val(coords).latitude,
                      longitude    |-> IF IsNone(coords) THEN None
                                       ELSE Val(coords).longitude,
                      website      |-> SeedWebsite(website, coords),
                      competitions |-> <<>>])
          k             == CHOOSE i \in 1..Len(created) :
                               KeyOf(created[i]) = location_key
          backfilled    ==
              IF Len(website) > 0 /\ Len(created[k].website) = 0
              THEN [created EXCEPT ![k].website = website]
              ELSE created
          competition   == CompetitionOf(e)
          appended      ==
              IF NonEmpty(competition)
              THEN [backfilled EXCEPT ![k].competitions =
                        AppendCompetition(@, competition)]
              ELSE backfilled
      IN  <<appended, locations \cup {sanitized}>>

----------------------------------------------------------------------------
(* update_locations_csv *)

\* what csv.writer writes for coords.get("latitude", "")
CsvCoordinate(coords, field) ==
    IF IsNone(coords) \/ IsNone(Val(coords)[field]) THEN <<>>
    ELSE repr(Val(Val(coords)[field]))

\* lines 194-201
LedgerWebsite(loc, coords, records) ==
    LET hit == {i \in 1..Len(records) :
                   /\ sanitize_location(records[i].location) = loc
                   /\ Len(records[i].website) > 0}
    IN  IF hit # {}
        THEN records[CHOOSE i \in hit : \A j \in hit : i <= j].website
        ELSE IF IsNone(coords) THEN <<>> ELSE Val(coords).website

\* the rows written: one per location of all_locations
LedgerRow(loc, ledger, records) ==
    LET coords == IF loc \in DOMAIN ledger THEN Some(ledger[loc]) ELSE None
    IN  [location_text |-> loc,
         latitude      |-> CsvCoordinate(coords, "latitude"),
         longitude     |-> CsvCoordinate(coords, "longitude"),
         website       |-> LedgerWebsite(loc, coords, records)]

RECURSIVE LedgerRowsOf(_, _, _)
LedgerRowsOf(order, ledger, records) ==
    IF Len(order) = 0 THEN <<>>
    ELSE <<LedgerRow(Head(order), ledger, records)>>
           \o LedgerRowsOf(Tail(order), ledger, records)

update_locations_csv(locations, ledger, records) ==
    LedgerRowsOf(Sorted(locations), ledger, records)

----------------------------------------------------------------------------
(* save_calendars *)

\* lines 307-313: clubs_data in insertion order, each [club, location,
\* competitions]; the location is set where the club's entry is created
RECURSIVE GroupByClubLast(_, _)
GroupByClubLast(data, clubs) ==
    IF Len(data) = 0 THEN clubs
    ELSE LET entry == Head(data)
             seen  == \E i \in 1..Len(clubs) : clubs[i].club = entry.club
             made  == IF seen THEN clubs
                      ELSE Append(clubs, [club         |-> entry.club,
                                          location     |-> entry.location,
                                          competitions |-> <<>>])
             k     == CHOOSE i \in 1..Len(made) : made[i].club = entry.club
         IN  GroupByClubLast(Tail(data),
                 [made EXCEPT ![k].competitions = @ \o entry.competitions,
                              ![k].location = entry.location])

RECURSIVE GroupByClub(_, _)
GroupByClub(data, clubs) ==
    IF Len(data) = 0 THEN clubs
    ELSE LET entry == Head(data)
             seen  == \E i \in 1..Len(clubs) : clubs[i].club = entry.club
             made  == IF seen THEN clubs
                      ELSE Append(clubs, [club         |-> entry.club,
                                          location     |-> entry.location,
                                          competitions |-> <<>>])
             k     == CHOOSE i \in 1..Len(made) : made[i].club = entry.club
         IN  GroupByClub(Tail(data),
                 [made EXCEPT ![k].competitions = @ \o entry.competitions])

\* comp['date'] (line 333) or comp['name'] (line 347) raises KeyError
CompRaises(comp) ==
    \/ IsNone(comp.date)
    \/ /\ ~IsNone(parse_date_range_for_ics(Val(comp.date)))
       /\ IsNone(comp.name)

\* w.replace('\n', ' ')
RECURSIVE NoNewline(_)
NoNewline(w) ==
    IF Len(w) = 0 THEN <<>>
    ELSE <<IF Head(w) = "\n" THEN " " ELSE Head(w)>> \o NoNewline(Tail(w))

\* [w.replace('\n', ' ').strip() for w in ...]
RECURSIVE Cleaned(_)
Cleaned(ws) ==
    IF Len(ws) = 0 THEN <<>>
    ELSE <<Strip(NoNewline(Head(ws)))>> \o Cleaned(Tail(ws))

\* lines 340-345
DescriptionOf(comp) ==
    LET ws   == IF IsNone(comp.weapons) THEN <<>> ELSE Val(comp.weapons)
        desc == CollapseSpace(Join(<<",", " ">>, Cleaned(ws)), FALSE)
    IN  <<"B", "r", "o", "n", "i", "e", ":", " ">> \o desc
          \o (IF ~IsNone(comp.regulation_link) /\ Len(Val(comp.regulation_link)) > 0
              THEN <<"\\", "n", "R", "e", "g", "u", "l", "a", "m", "i", "n", ":", " ">>
                     \o Val(comp.regulation_link)
              ELSE <<>>)

\* the VEVENT of lines 349-359; now is the run's DTSTAMP
VEvent(start_date, end_date, comp, location, now) ==
    [DTSTART     |-> start_date,
     DTEND       |-> end_date,
     DTSTAMP     |-> now,
     UID         |-> start_date \o <<"-">> \o generate_slug(Val(comp.name))
                       \o <<"@", "w", "z", "s", "s", ".", "m", "a", "p">>,
     SUMMARY     |-> Val(comp.name),
     DESCRIPTION |-> DescriptionOf(comp),
     LOCATION    |-> location]

EventOf(comp, location, now) ==
    LET d == Val(parse_date_range_for_ics(Val(comp.date)))
    IN  VEvent(Head(d), Head(Tail(d)), comp, location, now)

\* the events of one club's calendar: one per competition whose date parses
RECURSIVE EventsOf(_, _, _)
EventsOf(comps, location, now) ==
    IF Len(comps) = 0 THEN <<>>
    ELSE (IF IsNone(parse_date_range_for_ics(Val(Head(comps).date))) THEN <<>>
          ELSE <<EventOf(Head(comps), location, now)>>)
           \o EventsOf(Tail(comps), location, now)

\* line 320: the file of a club's calendar
CalendarFile(club_name) == generate_slug(club_name) \o <<".", "i", "c", "s">>

\* lines 318-364, club by club: [files, raised]
RECURSIVE WriteCalendars(_, _, _)
WriteCalendars(clubs, files, now) ==
    IF Len(clubs) = 0 THEN [files |-> files, raised |-> FALSE]
    ELSE LET data == Head(clubs)
         IN  IF \E i \in 1..Len(data.competitions) : CompRaises(data.competitions[i])
             THEN [files |-> files, raised |-> TRUE]
             ELSE WriteCalendars(Tail(clubs),
                      Put(files, CalendarFile(data.club),
                          [X_WR_CALNAME |-> data.club,
                           events |-> EventsOf(data.competitions, data.location, now)]),
                      now)

save_calendars(competitions_data, files, now) ==
    WriteCalendars(GroupByClub(competitions_data, <<>>), files, now)

----------------------------------------------------------------------------
(* Inputs *)

MaxEntries == 2     \* entries of a page
MaxRows    == 2     \* rows of the ledger file the first run finds
MaxRuns    == 2     \* runs of the script
MaxRecords == 2     \* records handed to save_calendars

\* all sequences over S of length at most n
RECURSIVE SeqsUpTo(_, _)
SeqsUpTo(S, n) ==
    IF n = 0 THEN {<<>>}
    ELSE LET shorter == SeqsUpTo(S, n - 1)
         IN  shorter \cup {Append(q, x) : q \in {r \in shorter : Len(r) = n - 1}, x \in S}

ClubA   == <<"U+0141", "K", "S">>
ClubB   == <<"L", "K", "S">>
ClubC   == <<"-">>
Street  == <<"U", "l", ",", "1">>
Street2 == <<"U", "l", "1">>
Forest  == <<"B", "o", "r">>
Link1   == <<"h", ":", "/", "/", "a", "/", "r">>
Link2   == <<"h", ":", "/", "/", "b", "/", "r">>
Site0   == <<"h", ":", "/", "/", "c">>
Day1    == <<"3", "1", " ", "g", "r", "u", " ", "2", "0", "2", "6">>
Days2   == <<"2", "7", " ", "-", " ", "2", "8", " ", "l", "u", "t", " ",
             "2", "0", "2", "6">>
NoMonth == <<"5", " ", "x", "y", "z", " ", "2", "0", "2", "6">>
Cup     == <<"C", "u", "p">>
Guns    == << <<"P", "s", "p">>, <<"K", "\n", " ", "d">> >>

EntryOf(club, location, href, date, name, weapons) ==
    [club |-> club, location |-> location, href |-> href,
     date |-> date, name |-> name, weapons |-> weapons]

\* the entries of the pages that parse_competitions is studied on
ParseEntries ==
    {EntryOf(Some(cl[1]), Some(cl[2]), hd[1], hd[2], None, None) :
        cl \in {<<ClubA, Street>>, <<ClubA, Street2>>, <<ClubA, Forest>>,
                <<ClubB, Street2>>},
        hd \in {<<None, None>>, <<None, Some(Day1)>>, <<Some(<<>>), Some(Day1)>>,
                <<Some(Link1), Some(Day1)>>, <<Some(Link2), Some(Day1)>>}}
    \cup {EntryOf(None, Some(Street), Some(Link1), Some(Day1), None, None),
          EntryOf(Some(ClubA), None, Some(Link1), Some(Day1), None, None)}

\* the entries of the pages that the whole script is run on
RunEntries ==
    {EntryOf(Some(ClubA), Some(Street), None, Some(Day1), Some(Cup), Some(Guns)),
     EntryOf(Some(ClubA), Some(Street), Some(Link1), Some(Days2), Some(Cup), None),
     EntryOf(Some(ClubB), Some(Street), None, Some(Day1), Some(Cup), None),
     EntryOf(Some(ClubB), Some(Forest), None, Some(NoMonth), Some(Cup), None),
     EntryOf(Some(ClubA), Some(Forest), None, None, Some(Cup), None)}

PagesOf(entries) ==
    {[empty |-> FALSE, entries |-> es] : es \in SeqsUpTo(entries, MaxEntries)}

BlankPage == [empty |-> TRUE, entries |-> <<>>]

RowOf(location_text, latitude, longitude, website) ==
    [location_text |-> location_text, latitude |-> latitude,
     longitude |-> longitude, website |-> website]

LedgerRows ==
    {RowOf(Street2, <<"5", "0">>, <<"1", "9", ".", "5">>, <<>>),
     RowOf(Street2, <<>>, <<"N", "o", "n", "e">>, Site0),
     RowOf(Forest, <<"5", "1", ".", "0">>, <<"2", "0", ".", "2", "5">>, Site0),
     RowOf(Forest, <<"x">>, <<"2", "0">>, <<>>)}

LedgerFiles == {None} \cup {Some(rows) : rows \in SeqsUpTo(LedgerRows, MaxRows)}

\* the competitions of a record handed to save_calendars
CompOf(date, name, link, weapons) ==
    [date |-> date, name |-> name, regulation_link |-> link, weapons |-> weapons]

CompLists ==
    LET good  == CompOf(Some(Day1), Some(Cup), Some(Link1), Some(Guns))
        range == CompOf(Some(Days2), Some(Cup), None, None)
        bad   == CompOf(Some(NoMonth), None, None, None)
        nodate == CompOf(None, Some(Cup), None, None)
        noname == CompOf(Some(Day1), None, None, None)
    IN  {<<>>, <<good>>, <<range>>, <<bad>>, <<nodate>>, <<noname>>,
         <<good, bad>>, <<bad, range>>}

CalendarRecords ==
    {[club |-> c, location |-> l, latitude |-> None, longitude |-> None,
      website |-> <<>>, competitions |-> cs] :
        c \in {ClubA, ClubB, ClubC}, l \in {Street, Forest}, cs \in CompLists}

\* lists of records with distinct keys, as locations_competitions.values() is
RecordLists ==
    {rs \in SeqsUpTo(CalendarRecords, MaxRecords) :
        \A i, j \in 1..Len(rs) : KeyOf(rs[i]) = KeyOf(rs[j]) => i = j}

\* the date texts: days, a month, a year, put together in one of the shapes
DayNumbers == {0, 1, 9, 27, 28, 29, 30, 31, 32}
Years == {2000, 2024, 2026, 2100}
Shapes == {"single", "range", "tight", "upper", "no_year", "no_month", "no_day"}

MeantDates ==
    {[shape |-> "range", year |-> y, month |-> m, d1 |-> a, d2 |-> b] :
        y \in Years, m \in 1..12, a \in DayNumbers, b \in DayNumbers}
    \cup {[shape |-> sh, year |-> y, month |-> m, d1 |-> a, d2 |-> b] :
        sh \in {"tight"}, y \in {2024, 2026}, m \in {2, 10, 12},
        a \in DayNumbers, b \in DayNumbers}
    \cup {[shape |-> sh, year |-> y, month |-> m, d1 |-> a, d2 |-> a] :
        sh \in Shapes \ {"range", "tight"}, y \in Years, m \in 1..12,
        a \in DayNumbers}

RECURSIVE Upper(_)
Upper(s) ==
    IF Len(s) = 0 THEN <<>>
    ELSE <<UpperChars[CHOOSE k \in 1..Len(LowerChars) : LowerChars[k] = Head(s)]>>
           \o Upper(Tail(s))

DateText(d) ==
    LET mon  == MONTHS[d.month]
        MON  == Upper(mon)
        year == Decimal(d.year)
        a    == Decimal(d.d1)
        b    == Decimal(d.d2)
    IN  CASE d.shape = "single"   -> a \o <<" ">> \o mon \o <<" ">> \o year
          [] d.shape = "range"    -> a \o <<" ", "-", " ">> \o b \o <<" ">> \o mon
                                       \o <<" ">> \o year
          [] d.shape = "tight"    -> a \o <<"-">> \o b \o <<" ">> \o mon
                                       \o <<" ">> \o year
          [] d.shape = "upper"    -> a \o <<" ">> \o MON \o <<" ">> \o year
          [] d.shape = "no_year"  -> a \o <<" ">> \o mon
          [] d.shape = "no_month" -> a \o <<" ", "x", "y", "z", " ">> \o year
          [] d.shape = "no_day"   -> mon \o <<" ">> \o year

----------------------------------------------------------------------------
(* main: one action per step of the script *)

Outputs == [ledgerFile |-> ledgerFile, jsonFile |-> jsonFile, calendars |-> calendars]

\* a process that has just started: the module-level names and main's locals
Fresh ==
    /\ locations_data = EmptyDict
    /\ html = None
    /\ club_websites = EmptyDict
    /\ locations_competitions = <<>>
    /\ all_locations = {}
    /\ pos = 0

NoDate == /\ date_str = <<>> /\ dates = None /\ meant = None

Init ==
    /\ pc = "load"
    /\ run = 1
    /\ ledgerFile \in LedgerFiles
    /\ jsonFile = None
    /\ calendars = EmptyDict
    /\ Fresh
    /\ atStart = Outputs
    /\ prev = None
    /\ portal \in PagesOf(RunEntries) \cup {BlankPage}
    /\ NoDate

\* line 219
Load ==
    /\ pc = "load"
    /\ locations_data' = load_locations_data(ledgerFile)
    /\ pc' = "fetch"
    /\ UNCHANGED <<run, ledgerFile, jsonFile, calendars, html, club_websites,
                   locations_competitions, all_locations, pos, atStart, prev,
                   portal, date_str, dates, meant>>

\* lines 220-221: the request succeeds; "if html:" ends the run on an empty text
FetchOk ==
    /\ pc = "fetch"
    /\ html' = Some(portal)
    /\ pc' = IF portal.empty THEN "done" ELSE "pass1"
    /\ UNCHANGED <<run, ledgerFile, jsonFile, calendars, locations_data,
                   club_websites, locations_competitions, all_locations, pos,
                   atStart, prev, portal, date_str, dates, meant>>

\* lines 57-59 and 221: RequestException, html is None and main returns
FetchFailWritesExport ==
    /\ pc = "fetch"
    /\ html' = None
    /\ jsonFile' = Some(<<>>)
    /\ pc' = "done"
    /\ UNCHANGED <<run, ledgerFile, calendars, locations_data,
                   club_websites, locations_competitions, all_locations, pos,
                   atStart, prev, portal, date_str, dates, meant>>
FetchFail ==
    /\ pc = "fetch"
    /\ html' = None
    /\ pc' = "done"
    /\ UNCHANGED <<run, ledgerFile, jsonFile, calendars, locations_data,
                   club_websites, locations_competitions, all_locations, pos,
                   atStart, prev, portal, date_str, dates, meant>>

\* lines 72-100
Pass1 ==
    /\ pc = "pass1"
    /\ club_websites' = FirstPass(Val(html).entries, EmptyDict)
    /\ pos' = 0
    /\ pc' = "pass2"
    /\ UNCHANGED <<run, ledgerFile, jsonFile, calendars, locations_data, html,
                   locations_competitions, all_locations, atStart, prev,
                   portal, date_str, dates, meant>>

\* lines 103-169, one entry
Pass2Step ==
    /\ pc = "pass2"
    /\ pos < Len(Val(html).entries)
    /\ LET r == SecondPassEntry(Val(html).entries[pos + 1], locations_competitions,
                                all_locations, club_websites, locations_data)
       IN  /\ locations_competitions' = r[1]
           /\ all_locations' = r[2]
    /\ pos' = pos + 1
    /\ UNCHANGED <<pc, run, ledgerFile, jsonFile, calendars, locations_data, html,
                   club_websites, atStart, prev, portal, date_str, dates, meant>>

\* lines 171 and 223-226: parse_competitions returns, save_competitions_json
SaveJson ==
    /\ pc = "pass2"
    /\ pos = Len(Val(html).entries)
    /\ jsonFile' = Some(locations_competitions)
    /\ pc' = "update_csv"
    /\ UNCHANGED <<run, ledgerFile, calendars, locations_data, html,
                   club_websites, locations_competitions, all_locations, pos,
                   atStart, prev, portal, date_str, dates, meant>>

\* line 227
UpdateCsv ==
    /\ pc = "update_csv"
    /\ ledgerFile' = Some(update_locations_csv(all_locations, locations_data,
                                               locations_competitions))
    /\ pc' = "save_calendars"
    /\ UNCHANGED <<run, jsonFile, calendars, locations_data, html,
                   club_websites, locations_competitions, all_locations, pos,
                   atStart, prev, portal, date_str, dates, meant>>

\* line 228; a KeyError ends the process with a traceback
SaveCalendars ==
    /\ pc = "save_calendars"
    /\ LET r == save_calendars(locations_competitions, calendars, run)
       IN  /\ calendars' = r.files
           /\ pc' = IF r.raised THEN "raised" ELSE "done"
    /\ UNCHANGED <<run, ledgerFile, jsonFile, locations_data, html,
                   club_websites, locations_competitions, all_locations, pos,
                   atStart, prev, portal, date_str, dates, meant>>

\* the script is started again: a new process, the files as they were left
NewRun ==
    /\ pc \in {"done", "raised"}
    /\ run < MaxRuns
    /\ run' = run + 1
    /\ pc' = "load"
    /\ locations_data' = EmptyDict
    /\ html' = None
    /\ club_websites' = EmptyDict
    /\ locations_competitions' = <<>>
    /\ all_locations' = {}
    /\ pos' = 0
    /\ atStart' = Outputs
    /\ prev' = Some([pc |-> pc, html |-> html, start |-> atStart, end |-> Outputs])
    /\ UNCHANGED <<ledgerFile, jsonFile, calendars, portal, date_str, dates, meant>>

Next ==
    \/ Load
    \/ FetchOk
    \/ FetchFail
    \/ Pass1
    \/ Pass2Step
    \/ SaveJson
    \/ UpdateCsv
    \/ SaveCalendars
    \/ NewRun

Spec == Init /\ [][Next]_vars

----------------------------------------------------------------------------
(* parse_competitions on its own: any page, any ledger *)

InitParse ==
    /\ pc = "pass1"
    /\ run = 0
    /\ ledgerFile \in {None} \cup {Some(<<r>>) : r \in LedgerRows}
    /\ jsonFile = None
    /\ calendars = EmptyDict
    /\ locations_data = load_locations_data(ledgerFile)
    /\ portal \in PagesOf(ParseEntries)
    /\ html = Some(portal)
    /\ club_websites = EmptyDict
    /\ locations_competitions = <<>>
    /\ all_locations = {}
    /\ pos = 0
    /\ atStart = Outputs
    /\ prev = None
    /\ NoDate

NextParse == Pass1 \/ Pass2Step

SpecParse == InitParse /\ [][NextParse]_vars

----------------------------------------------------------------------------
(* save_calendars on its own: any list of records, an empty directory *)

InitCalendars ==
    /\ pc = "save_calendars"
    /\ run = 0
    /\ ledgerFile = None
    /\ jsonFile = None
    /\ calendars = EmptyDict
    /\ locations_data = EmptyDict
    /\ portal = BlankPage
    /\ html = None
    /\ club_websites = EmptyDict
    /\ locations_competitions \in RecordLists
    /\ all_locations = {}
    /\ pos = 0
    /\ atStart = Outputs
    /\ prev = None
    /\ NoDate

NextCalendars == SaveCalendars

SpecCalendars == InitCalendars /\ [][NextCalendars]_vars

----------------------------------------------------------------------------
(* parse_date_range_for_ics on its own: any date text *)

InitDate ==
    /\ pc = "parse_date"
    /\ run = 0
    /\ ledgerFile = None
    /\ jsonFile = None
    /\ calendars = EmptyDict
    /\ Fresh
    /\ portal = BlankPage
    /\ atStart = Outputs
    /\ prev = None
    /\ meant \in {Some(d) : d \in MeantDates}
    /\ date_str = DateText(Val(meant))
    /\ dates = None

ParseDate ==
    /\ pc = "parse_date"
    /\ dates' = parse_date_range_for_ics(date_str)
    /\ pc' = "returned"
    /\ UNCHANGED <<run, ledgerFile, jsonFile, calendars, locations_data, html,
                   club_websites, locations_competitions, all_locations, pos,
                   atStart, prev, portal, date_str, meant>>

NextDate == ParseDate

SpecDate == InitDate /\ [][NextDate]_vars

----------------------------------------------------------------------------
(* Properties of parse_date_range_for_ics (SpecDate) *)

\* the calendar day after (y, m, d), by the rules of the calendar
DayAfter(y, m, d) ==
    IF d < DaysInMonth(y, m) THEN <<y, m, d + 1>>
    ELSE IF m < 12 THEN <<y, m + 1, 1>>
    ELSE <<y + 1, 1, 1>>

\* the eight digits YYYYMMDD of a date
EightDigits(ymd) == Pad(Decimal(ymd[1] * 10000 + ymd[2] * 100 + ymd[3]), 8)

C10_StartBeforeEnd ==
    (pc = "returned" /\ ~IsNone(dates))
    => IntOf(Head(Val(dates))) < IntOf(Head(Tail(Val(dates))))

----------------------------------------------------------------------------
(* Properties of save_calendars (SpecCalendars) *)

ClubsOf(data) == {data[i].club : i \in 1..Len(data)}

\* the location text of the club's first / last record in input order
FirstLocation(data, club_name) ==
    LET at == {i \in 1..Len(data) : data[i].club = club_name}
    IN  data[CHOOSE i \in at : \A j \in at : i <= j].location

LastLocation(data, club_name) ==
    LET at == {i \in 1..Len(data) : data[i].club = club_name}
    IN  data[CHOOSE i \in at : \A j \in at : j <= i].location

\* C5: after the call there are as many calendar files as distinct club
\* names in the input, and no two clubs share a file.
C5_OneFilePerClub ==
    pc = "done"
    => /\ Cardinality(DOMAIN calendars) = Cardinality(ClubsOf(locations_competitions))
       /\ \A c \in ClubsOf(locations_competitions) :
             /\ CalendarFile(c) \in DOMAIN calendars
             /\ calendars[CalendarFile(c)].X_WR_CALNAME = c

\* C9 as stated: every event of a club's calendar carries the location text
\* of the club's last record in input order.
C9_LastLocationWins ==
    \A f \in DOMAIN calendars :
        \A i \in 1..Len(calendars[f].events) :
            calendars[f].events[i].LOCATION =
                LastLocation(locations_competitions, calendars[f].X_WR_CALNAME)

\* C9 as the code has it: every event of a club's calendar carries the
\* location text of the club's first record in input order.
C9_FirstLocationWins ==
    \A f \in DOMAIN calendars :
        \A i \in 1..Len(calendars[f].events) :
            calendars[f].events[i].LOCATION =
                FirstLocation(locations_competitions, calendars[f].X_WR_CALNAME)

\* a club with two records of different location texts has a calendar with
\* an event in it
C9_Witness ==
    /\ pc = "done"
    /\ \E f \in DOMAIN calendars :
          /\ Len(calendars[f].events) > 0
          /\ FirstLocation(locations_competitions, calendars[f].X_WR_CALNAME)
               # LastLocation(locations_competitions, calendars[f].X_WR_CALNAME)

----------------------------------------------------------------------------
(* Properties of parse_competitions (SpecParse) *)

\* parse_competitions is at its return statement
Returned == pc = "pass2" /\ pos = Len(Val(html).entries)

\* an entry the second pass does not skip, and its LocationKey
Keyed(e) == ~IsNone(e.club) /\ ~IsNone(e.location)
KeyOfEntry(e) == <<Strip(Val(e.club)), sanitize_location(Strip(Val(e.location)))>>

\* the entries of a club that carry a regulation link
Linked(es, club_name) ==
    {i \in 1..Len(es) : /\ ~IsNone(es[i].club)
                        /\ Strip(Val(es[i].club)) = club_name
                        /\ ~IsNone(es[i].href)}

\* the entry that creates the record of a key
FirstOfKey(es, key) ==
    CHOOSE i \in 1..Len(es) :
        /\ Keyed(es[i]) /\ KeyOfEntry(es[i]) = key
        /\ \A j \in 1..(i - 1) : ~(Keyed(es[j]) /\ KeyOfEntry(es[j]) = key)

\* the case of C6: the club's regulation link (one address) appears only on
\* entries after the one that creates the record rec
LinkOnlyLater(es, rec) ==
    LET linked == Linked(es, rec.club)
    IN  /\ linked # {}
        /\ \A i \in linked : i > FirstOfKey(es, KeyOf(rec))
        /\ \A i, j \in linked : es[i].href = es[j].href

TheLink(es, rec) == Val(es[CHOOSE i \in Linked(es, rec.club) : TRUE].href)

\* the website the ledger holds for the record's location
LedgerSite(rec) ==
    LET loc == sanitize_location(rec.location)
    IN  IF loc \in DOMAIN locations_data THEN locations_data[loc].website ELSE <<>>

\* C6 as stated: when the club's regulation link appears only after the entry
\* that creates a record, the record returned has the website derived from
\* that link, whatever the ledger holds.
C6_WebsiteFromLink ==
    Returned =>
        \A i \in 1..Len(locations_competitions) :
            LET rec == locations_competitions[i]
            IN  LinkOnlyLater(Val(html).entries, rec)
                => rec.website = WebsiteOf(TheLink(Val(html).entries, rec))

\* C6 as the code has it: the same, when the website derived from the link
\* is not empty; a link that gives an empty website (an empty href) is
\* ignored, and the record has the website the ledger holds for the location.
C6_WebsiteFromLinkUnlessEmpty ==
    Returned =>
        \A i \in 1..Len(locations_competitions) :
            LET rec  == locations_competitions[i]
                site == WebsiteOf(TheLink(Val(html).entries, rec))
            IN  LinkOnlyLater(Val(html).entries, rec)
                => rec.website = IF Len(site) > 0 THEN site ELSE LedgerSite(rec)

\* a record made by a first entry without a link, the club's link on the
\* second entry, the ledger holding another website for the location
C6_Witness ==
    /\ Returned
    /\ \E i \in 1..Len(locations_competitions) :
          LET rec == locations_competitions[i]
          IN  /\ LinkOnlyLater(Val(html).entries, rec)
              /\ TheLink(Val(html).entries, rec) = Link1
              /\ LedgerSite(rec) = Site0
              /\ rec.website = WebsiteOf(Link1)

OneRecordPerKey(records) ==
    \A i, j \in 1..Len(records) : KeyOf(records[i]) = KeyOf(records[j]) => i = j

IsPrefix(a, b) == Len(a) <= Len(b) /\ SubSeq(b, 1, Len(a)) = a

\* the competitions of the first n entries that have the key, in document order
RECURSIVE Encountered(_, _, _)
Encountered(es, n, key) ==
    IF n = 0 THEN <<>>
    ELSE Encountered(es, n - 1, key)
           \o (IF Keyed(es[n]) /\ KeyOfEntry(es[n]) = key
                    /\ NonEmpty(CompetitionOf(es[n]))
               THEN <<CompetitionOf(es[n])>> ELSE <<>>)

\* C8: in every step of the assembly each key keeps one record, a record is
\* there exactly for the keys met so far, an existing record keeps its place,
\* key and location text, its list of competitions only grows at the end and
\* is the competitions of its key in document order, and its website does
\* not go from non-empty to empty.
C8_RecordsOnlyGrow ==
    [][/\ OneRecordPerKey(locations_competitions')
       /\ {KeyOf(locations_competitions'[i]) : i \in 1..Len(locations_competitions')}
            = {KeyOfEntry(Val(html).entries[j]) :
                 j \in {k \in 1..pos' : Keyed(Val(html).entries[k])}}
       /\ Len(locations_competitions') >= Len(locations_competitions)
       /\ \A i \in 1..Len(locations_competitions) :
             /\ KeyOf(locations_competitions'[i]) = KeyOf(locations_competitions[i])
             /\ locations_competitions'[i].location = locations_competitions[i].location
             /\ IsPrefix(locations_competitions[i].competitions,
                         locations_competitions'[i].competitions)
             /\ Len(locations_competitions[i].website) > 0
                  => Len(locations_competitions'[i].website) > 0
       /\ \A i \in 1..Len(locations_competitions') :
             locations_competitions'[i].competitions =
                 Encountered(Val(html).entries, pos',
                             KeyOf(locations_competitions'[i]))
      ]_vars

\* a record that has taken two different competitions, one after the other
C8_Witness ==
    /\ pc = "pass2"
    /\ pos = 2
    /\ \E i \in 1..Len(locations_competitions) :
          LET cs == locations_competitions[i].competitions
          IN  Len(cs) = 2 /\ cs[1] # cs[2]
                /\ cs = <<CompetitionOf(Val(html).entries[1]),
                          CompetitionOf(Val(html).entries[2])>>

----------------------------------------------------------------------------
(* Properties of the whole script (Spec) *)

\* "if html:" of line 221
Truthy(h) == ~IsNone(h) /\ ~Val(h).empty

\* the competitions of a club whose date is there and parses
RECURSIVE Parsable(_)
Parsable(comps) ==
    IF Len(comps) = 0 THEN <<>>
    ELSE (IF ~IsNone(Head(comps).date)
               /\ ~IsNone(parse_date_range_for_ics(Val(Head(comps).date)))
          THEN <<Head(comps)>> ELSE <<>>) \o Parsable(Tail(comps))

RECURSIVE CompsOfClub(_, _)
CompsOfClub(data, club_name) ==
    IF Len(data) = 0 THEN <<>>
    ELSE (IF Head(data).club = club_name THEN Head(data).competitions ELSE <<>>)
           \o CompsOfClub(Tail(data), club_name)

\* C3: save_calendars ends without raising, every club has its calendar, a
\* calendar has one event for each competition of its club whose date parses
\* and none for the others, and every competition is in the JSON export.
C3_CalendarsWithoutRaising ==
    (pc \in {"done", "raised"} /\ Truthy(html))
    => /\ pc = "done"
       /\ \A c \in ClubsOf(locations_competitions) :
             CalendarFile(c) \in DOMAIN calendars
       /\ \A f \in DOMAIN calendars :
             Len(calendars[f].events) =
                 Len(Parsable(CompsOfClub(locations_competitions,
                                          calendars[f].X_WR_CALNAME)))
       /\ jsonFile = Some(locations_competitions)

\* the coordinates a ledger file holds: <<location text, latitude, longitude>>
HeldCoordinates(file) ==
    IF IsNone(file) THEN {}
    ELSE {<<r.location_text, Val(float(r.latitude)), Val(float(r.longitude))>> :
            r \in {q \in Range(Val(file)) :
                     ~IsNone(float(q.latitude)) /\ ~IsNone(float(q.longitude))}}

\* the ledger has a well-formed row for every location of the page
Populated(file, page) ==
    /\ ~IsNone(file)
    /\ \A i \in 1..Len(Val(file)) : ~RowRaises(Val(file)[i])
    /\ \A i \in 1..Len(page.entries) :
          Keyed(page.entries[i]) =>
              \E j \in 1..Len(Val(file)) :
                  Val(file)[j].location_text = KeyOfEntry(page.entries[i])[2]

\* C1: a run that ends after a run that ended, on the same markup, the first
\* of the two having started from a populated ledger, leaves the JSON export
\* and the ledger file as the first of the two left them.
C1_SecondRunSameOutput ==
    (/\ pc = "done"
     /\ Truthy(html)
     /\ ~IsNone(prev)
     /\ Val(prev).pc = "done"
     /\ Val(prev).html = html
     /\ Populated(Val(prev).start.ledgerFile, Val(html)))
    => /\ jsonFile = Val(prev).end.jsonFile
       /\ ledgerFile = Val(prev).end.ledgerFile

\* C2: the coordinates the ledger file held when a run began are in the
\* ledger file at every later point of the run.
C2_CoordinatesKept ==
    HeldCoordinates(atStart.ledgerFile) \subseteq HeldCoordinates(ledgerFile)

\* C4: as long as the run has no fetched markup (before the fetch, and after
\* a fetch that failed), the ledger file, the JSON export and the calendar
\* files are as they were when the run began.
C4_NoWriteWithoutFetch ==
    IsNone(html) => Outputs = atStart

\* a run whose fetch failed has ended, and the files of an earlier run
\* that succeeded are in place
C4_Witness ==
    /\ pc = "done"
    /\ IsNone(html)
    /\ run = 2
    /\ ~IsNone(jsonFile) /\ Len(Val(jsonFile)) > 0
    /\ ~IsNone(ledgerFile) /\ Len(Val(ledgerFile)) > 0
    /\ DOMAIN calendars # {}

====
